---- MODULE Spec2Model ----
(***************************************************************************)
(* Model of src/mask.rs of bevy_jfa: the mask pipeline specializer         *)
(* (MeshMaskPipeline::specialize) and the render-graph node that draws the *)
(* mask (MeshMaskNode::update / MeshMaskNode::run).                        *)
(***************************************************************************)
EXTENDS Integers, Sequences, FiniteSets, TLC

VARIABLES
    mesh_pipeline,  \* mask.rs:22   MeshMaskPipeline.mesh_pipeline, the cloned base MeshPipeline
    calls,          \* mask.rs:36   the specialize calls made so far: <<[key, layout, result]>>
    res_present,    \* mask.rs:127  is the OutlineResources resource in the world
    phase,          \* mask.rs:134  RenderPhase<MeshMask> of the view entity this frame, or NoPhase
    input_view,     \* mask.rs:133  value of the node's input slot IN_VIEW, or NoEntity
    query,          \* mask.rs:88   MeshMaskNode.query: has it matched the archetype that
                    \*              holds RenderPhase<MeshMask>
    pc,             \* position in the frame: "idle", "update", "run"; "crashed" after a panic
    out_slot,       \* mask.rs:130  value of the node's output slot OUT_MASK, or NoView
    trace,          \* mask.rs:129-152  what run did this frame: the slot assignment and
                    \*              the commands recorded in the pass
    result,         \* mask.rs:126  how run ended this frame: "none", "Ok", "Err", "panic"
    tex             \* mask.rs:142-143  contents of the mask_multisample and mask_output
                    \*              textures: the items whose silhouette shows in each

vars == <<mesh_pipeline, calls, res_present, phase, input_view, query, pc,
          out_slot, trace, result, tex>>

nodeVars == <<res_present, phase, input_view, query, pc, out_slot, trace, result, tex>>

----------------------------------------------------------------------------
(* Bounds of the model *)

NumItems == 2
MaxPhaseLen == 2
MaxCalls == 2

----------------------------------------------------------------------------
(* Values *)

Items == 1..NumItems

\* Option<&RenderPhase<MeshMask>>: no phase, or the phase's ordered items.
NoPhase == [some |-> FALSE, items |-> << >>]

SomePhase(s) == [some |-> TRUE, items |-> s]
NoEntity == "NoEntity"
NoView == "NoView"
ViewEntity == "view_entity"

\* The ordered item lists a phase can hold: distinct phase items, in any order.
PhaseSeqs ==
    UNION { { s \in [1..n -> Items] : \A i, j \in 1..n : i # j => s[i] # s[j] }
            : n \in 0..MaxPhaseLen }

\* Sample counts a MeshPipelineKey can carry (Msaa::Off = 1, then 2, 4, 8).
MsaaSamples == {1, 2, 4, 8}

Keys == [msaa_samples : MsaaSamples]

\* Vertex layouts of meshes. The base pipeline builds a pipeline for "L1" and
\* fails, with a different error each, for the two others.
Layouts == {"L1", "L_no_position", "L_no_normal"}

msaa_samples(key) == key.msaa_samples

----------------------------------------------------------------------------
(* MeshMaskPipeline *)

from_world ==
    [view_layout             |-> "view_layout",
     view_layout_multisampled |-> "view_layout_multisampled",
     mesh_layout             |-> "mesh_layout"]

\* self.mesh_pipeline.specialize(key, layout): the base mesh pipeline's result.
BaseSpecialize(mp, key, layout) ==
    IF layout # "L1"
    THEN [tag |-> "Err",
          err |-> IF layout = "L_no_position"
                  THEN "MissingVertexAttribute(Vertex_Position)"
                  ELSE "MissingVertexAttribute(Vertex_Normal)"]
    ELSE [tag |-> "Ok",
          desc |->
            [layout        |-> << IF msaa_samples(key) = 1
                                  THEN mp.view_layout
                                  ELSE mp.view_layout_multisampled,
                                  mp.mesh_layout >>,
             vertex_shader |-> "MESH_SHADER_HANDLE",
             vertex_layout |-> layout,
             fragment      |-> [shader      |-> "PBR_SHADER_HANDLE",
                                shader_defs |-> << >>,
                                entry_point |-> "fragment",
                                targets     |-> << [format     |-> "Bgra8UnormSrgb",
                                                    blend      |-> "ALPHA_BLENDING",
                                                    write_mask |-> "ALL"] >>],
             depth_stencil |-> "Depth32Float",
             multisample   |-> [count |-> msaa_samples(key),
                                mask  |-> "!0",
                                alpha_to_coverage_enabled |-> FALSE],
             label         |-> "opaque_mesh_pipeline"]]

MaskFragment ==
    [shader      |-> "MASK_SHADER_HANDLE",
     shader_defs |-> << "MAX_DIRECTIONAL_LIGHTS", "MAX_CASCADES_PER_LIGHT" >>,
     entry_point |-> "fragment",
     targets     |-> << [format     |-> "R8Unorm",
                         blend      |-> "None",
                         write_mask |-> "ALL"] >>]

MaskMultisample ==
    [count |-> 4, mask |-> "!0", alpha_to_coverage_enabled |-> FALSE]

\* The first bind-group layout the mask pipeline selects.
ViewLayoutFor(mp, key) ==
    IF msaa_samples(key) > 0
    THEN mp.view_layout_multisampled
    ELSE mp.view_layout

\* Variant: the multisample state of the base descriptor is left as the key set it.
specialize_keeps_key_msaa(mp, key, layout) ==
    LET base == BaseSpecialize(mp, key, layout) IN
    IF base.tag = "Err"
    THEN base
    ELSE [tag |-> "Ok",
          desc |-> [base.desc EXCEPT
                      !.layout        = << ViewLayoutFor(mp, key), mp.mesh_layout >>,
                      !.vertex_shader = "MASK_SHADER_HANDLE",
                      !.fragment      = MaskFragment,
                      !.depth_stencil = "None",
                      !.label         = "mesh_stencil_pipeline"]]

\* Variant: a failed base specialization is retried for a layout it accepts.
specialize_fallback(mp, key, layout) ==
    LET base == BaseSpecialize(mp, key, layout)
        used == IF base.tag = "Err" THEN BaseSpecialize(mp, key, "L1") ELSE base
    IN  [tag |-> "Ok",
         desc |-> [used.desc EXCEPT
                      !.layout        = << ViewLayoutFor(mp, key), mp.mesh_layout >>,
                      !.vertex_shader = "MASK_SHADER_HANDLE",
                      !.fragment      = MaskFragment,
                      !.depth_stencil = "None",
                      !.multisample   = MaskMultisample,
                      !.label         = "mesh_stencil_pipeline"]]

\* Variant: the descriptor depends on how many pipelines were specialized before.
specialize_counts_calls(mp, key, layout) ==
    LET base == BaseSpecialize(mp, key, layout) IN
    IF base.tag = "Err"
    THEN base
    ELSE [tag |-> "Ok",
          desc |-> [base.desc EXCEPT
                      !.layout        = << ViewLayoutFor(mp, key), mp.mesh_layout >>,
                      !.vertex_shader = "MASK_SHADER_HANDLE",
                      !.fragment      = MaskFragment,
                      !.depth_stencil = "None",
                      !.multisample   = MaskMultisample,
                      !.label         = IF calls = << >>
                                        THEN "mesh_stencil_pipeline"
                                        ELSE "mesh_stencil_pipeline_respecialized"]]

specialize(mp, key, layout) ==
    LET base == BaseSpecialize(mp, key, layout) IN
    IF base.tag = "Err"
    THEN base
    ELSE [tag |-> "Ok",
          desc |-> [base.desc EXCEPT
                      !.layout        = << ViewLayoutFor(mp, key), mp.mesh_layout >>,
                      !.vertex_shader = "MASK_SHADER_HANDLE",
                      !.fragment      = MaskFragment,
                      !.depth_stencil = "None",
                      !.multisample   = MaskMultisample,
                      !.label         = "mesh_stencil_pipeline"]]

----------------------------------------------------------------------------
(* MeshMaskNode *)

\* Variant: a missing phase is treated as an empty one.
get_manual_or_default(q, ph) == [tag |-> "Ok", phase |-> ph.items]

\* self.query.get_manual(world, view_entity): the phase, when the query has
\* matched the archetype of an entity that carries one.
get_manual(q, ph) ==
    IF q /\ ph.some
    THEN [tag |-> "Ok", phase |-> ph.items]
    ELSE [tag |-> "Err"]

\* Variant: the pass has no resolve target.
PassDescriptor_no_resolve ==
    [label |-> "outline_stencil_render_pass",
     color_attachments |->
        << [view           |-> "mask_multisample",
            resolve_target |-> "None",
            load           |-> "Clear_BLACK",
            store          |-> TRUE] >>,
     depth_stencil_attachment |-> "None"]

PassDescriptor ==
    [label |-> "outline_stencil_render_pass",
     color_attachments |->
        << [view           |-> "mask_multisample",
            resolve_target |-> "mask_output",
            load           |-> "Clear_BLACK",
            store          |-> TRUE] >>,
     depth_stencil_attachment |-> "None"]

\* begin_tracked_render_pass: opening the pass performs the load operation of
\* each color attachment.
BeginPass(desc) ==
    << [op |-> "begin_pass", desc |-> desc] >>
    \o [i \in 1..Len(desc.color_attachments) |->
          IF desc.color_attachments[i].load = "Clear_BLACK"
          THEN [op |-> "clear", target |-> desc.color_attachments[i].view]
          ELSE [op |-> "load", target |-> desc.color_attachments[i].view]]

\* Variant: the items are drawn back to front.
render_reversed(ph, desc) ==
    [i \in 1..Len(ph) |->
        [op |-> "draw", item |-> ph[Len(ph) + 1 - i],
         target |-> desc.color_attachments[1].view]]

\* stencil_phase.render(&mut pass, world, view_entity): one draw per item, in order.
render(ph, desc) ==
    [i \in 1..Len(ph) |->
        [op |-> "draw", item |-> ph[i], target |-> desc.color_attachments[1].view]]

\* The pass goes out of scope at the end of run: attachments with a resolve
\* target are resolved into it.
EndPass(desc) ==
    LET att == desc.color_attachments[1] IN
    (IF att.resolve_target # "None"
     THEN << [op |-> "resolve", src |-> att.view, dst |-> att.resolve_target] >>
     ELSE << >>)
    \o << [op |-> "end_pass"] >>

\* The view handed to the output slot.
OutputView == "mask_multisample"

SetOutput(view) == << [op |-> "set_output", view |-> view] >>

\* Variant: a missing input is swallowed and reported as success.
run_missing_input_ok(q, present, inp, ph) ==
    IF ~present
    THEN [result |-> "panic", out |-> NoView, trace |-> << >>]
    ELSE IF inp = NoEntity
    THEN [result |-> "Ok", out |-> OutputView, trace |-> SetOutput(OutputView)]
    ELSE LET got == get_manual(q, ph) IN
         IF got.tag = "Err"
         THEN [result |-> "Ok", out |-> OutputView, trace |-> SetOutput(OutputView)]
         ELSE [result |-> "Ok", out |-> OutputView,
               trace  |-> SetOutput(OutputView)
                          \o BeginPass(PassDescriptor)
                          \o render(got.phase, PassDescriptor)
                          \o EndPass(PassDescriptor)]

\* MeshMaskNode::run as a function of what it reads.
run(q, present, inp, ph) ==
    IF ~present
    THEN [result |-> "panic", out |-> NoView, trace |-> << >>]
    ELSE IF inp = NoEntity
    THEN [result |-> "panic", out |-> OutputView, trace |-> SetOutput(OutputView)]
    ELSE LET got == get_manual(q, ph) IN
         IF got.tag = "Err"
         THEN [result |-> "Ok", out |-> OutputView, trace |-> SetOutput(OutputView)]
         ELSE [result |-> "Ok", out |-> OutputView,
               trace  |-> SetOutput(OutputView)
                          \o BeginPass(PassDescriptor)
                          \o render(got.phase, PassDescriptor)
                          \o EndPass(PassDescriptor)]

\* Effect of one recorded command on the textures.
Apply(t, c) ==
    IF c.op = "clear" THEN [t EXCEPT ![c.target] = {}]
    ELSE IF c.op = "draw" THEN [t EXCEPT ![c.target] = @ \cup {c.item}]
    ELSE IF c.op = "resolve" THEN [t EXCEPT ![c.dst] = t[c.src]]
    ELSE t

RECURSIVE Execute(_, _)
Execute(t, cmds) ==
    IF cmds = << >> THEN t
    ELSE Execute(Apply(t, Head(cmds)), Tail(cmds))

----------------------------------------------------------------------------
(* Specification *)

Init ==
    /\ mesh_pipeline = from_world
    /\ calls = << >>
    /\ res_present = TRUE
    /\ phase = NoPhase
    /\ input_view = NoEntity
    /\ query = FALSE
    /\ pc = "idle"
    /\ out_slot = NoView
    /\ trace = << >>
    /\ result = "none"
    /\ tex = [t \in {"mask_multisample", "mask_output"} |-> {}]

\* A caller specializes the mask pipeline for a key and a vertex layout.
Specialize ==
    /\ pc # "crashed"
    /\ Len(calls) < MaxCalls
    /\ \E key \in Keys, layout \in Layouts :
          calls' = Append(calls, [key |-> key, layout |-> layout,
                                  result |-> specialize(mesh_pipeline, key, layout)])
    /\ UNCHANGED <<mesh_pipeline, nodeVars>>

\* A new frame: upstream stages rebuild the view's phase and the graph wires
\* (or fails to wire) the node's input; slots and commands of the frame are fresh.
BeginFrame ==
    /\ pc = "idle"
    /\ phase' \in {NoPhase} \cup { SomePhase(s) : s \in PhaseSeqs }
    /\ input_view' \in {NoEntity, ViewEntity}
    /\ res_present' \in BOOLEAN
    /\ out_slot' = NoView
    /\ trace' = << >>
    /\ result' = "none"
    /\ pc' = "update"
    /\ UNCHANGED <<mesh_pipeline, calls, query, tex>>

\* MeshMaskNode::update
update ==
    /\ pc = "update"
    /\ query' = (query \/ phase.some)
    /\ pc' = "run"
    /\ UNCHANGED <<mesh_pipeline, calls, res_present, phase, input_view,
                   out_slot, trace, result, tex>>

\* MeshMaskNode::run, followed by the execution of the commands it recorded.
\* A panic (a failed unwrap) ends the program: nothing runs after it.
Run ==
    /\ pc = "run"
    /\ LET r == run(query, res_present, input_view, phase) IN
          /\ result' = r.result
          /\ out_slot' = r.out
          /\ trace' = r.trace
          /\ tex' = IF r.result = "Ok" THEN Execute(tex, r.trace) ELSE tex
    /\ pc' = IF run(query, res_present, input_view, phase).result = "panic"
             THEN "crashed"
             ELSE "idle"
    /\ UNCHANGED <<mesh_pipeline, calls, res_present, phase, input_view, query>>

Next == Specialize \/ BeginFrame \/ update \/ Run

Spec == Init /\ [][Next]_vars

----------------------------------------------------------------------------
(* Properties *)

\* run has finished (returned or panicked) in the current frame.
RunEnded == result # "none"

\* run got past the lookup of OutlineResources and had a wired input.
RunReachedLookup == RunEnded /\ res_present /\ input_view = ViewEntity

OpIdx(op) == { i \in 1..Len(trace) : trace[i].op = op }

PassOps == {"begin_pass", "clear", "load", "draw", "resolve", "end_pass"}

IsDraw(c) == c.op = "draw"

\* The items drawn by run this frame, in recorded order.
DrawnItems ==
    LET d == SelectSeq(trace, IsDraw) IN [i \in 1..Len(d) |-> d[i].item]

\* C1: after every run that reaches the output assignment, the output slot
\* holds the view of the resolved single-sample texture (mask_output), not the
\* view of the multisampled target.
C1_OutputIsResolvedView ==
    RunReachedLookup => out_slot = "mask_output"

\* C2: run for a view with no phase assigns the output slot, begins no render
\* pass (records no clear, draw or resolve) and returns Ok.
C2_NoPhaseNoPass ==
    (RunReachedLookup /\ ~phase.some) =>
        /\ out_slot # NoView
        /\ OpIdx("set_output") # {}
        /\ \A i \in 1..Len(trace) : trace[i].op \notin PassOps
        /\ result = "Ok"

C2_Witness ==
    /\ RunReachedLookup /\ ~phase.some
    /\ result = "Ok"
    /\ query

\* C3: run for a view whose phase holds items i1..in (n >= 1) records each
\* item's draw exactly once, in the phase's order, and the clear of the
\* multisample target precedes the first draw.
C3_DrawsInPhaseOrder ==
    (RunReachedLookup /\ phase.some /\ Len(phase.items) >= 1) =>
        /\ DrawnItems = phase.items
        /\ \E c \in OpIdx("clear") :
              /\ trace[c].target = "mask_multisample"
              /\ \A d \in OpIdx("draw") : c < d

C3_Witness ==
    /\ RunReachedLookup /\ phase.some /\ Len(phase.items) >= 2
    /\ Cardinality(OpIdx("draw")) = Len(phase.items)

\* C4: every descriptor specialize returns has no depth/stencil state,
\* multisample count 4 with full mask and no alpha-to-coverage whatever the
\* key's sample count, exactly one R8Unorm color target without blending and
\* with write mask ALL, and exactly two bind-group layouts.
C4_FixedMaskState ==
    \A i \in 1..Len(calls) :
        calls[i].result.tag = "Ok" =>
            LET d == calls[i].result.desc IN
            /\ d.depth_stencil = "None"
            /\ d.multisample = [count |-> 4, mask |-> "!0",
                                alpha_to_coverage_enabled |-> FALSE]
            /\ Len(d.fragment.targets) = 1
            /\ d.fragment.targets[1] = [format |-> "R8Unorm", blend |-> "None",
                                        write_mask |-> "ALL"]
            /\ Len(d.layout) = 2

C4_Witness ==
    \E i \in 1..Len(calls) :
        /\ calls[i].result.tag = "Ok"
        /\ msaa_samples(calls[i].key) # 4

\* C5: when the base specialization fails, specialize returns that same error
\* unmodified, with no descriptor and no fallback.
C5_BaseErrorPropagates ==
    \A i \in 1..Len(calls) :
        LET base == BaseSpecialize(mesh_pipeline, calls[i].key, calls[i].layout) IN
        base.tag = "Err" =>
            /\ calls[i].result.tag = "Err"
            /\ calls[i].result = base

C5_Witness ==
    \E i \in 1..Len(calls) :
        /\ BaseSpecialize(mesh_pipeline, calls[i].key, calls[i].layout).tag = "Err"
        /\ calls[i].result.tag = "Err"

\* C6: the first bind-group layout of a returned descriptor is the
\* multisampled view layout when the key indicates multisampling and the
\* single-sample view layout when it does not (sample count 1); the second is
\* the mesh layout.
C6_ViewLayoutFollowsKey ==
    \A i \in 1..Len(calls) :
        calls[i].result.tag = "Ok" =>
            LET d == calls[i].result.desc IN
            /\ d.layout[1] = IF msaa_samples(calls[i].key) > 1
                             THEN mesh_pipeline.view_layout_multisampled
                             ELSE mesh_pipeline.view_layout
            /\ d.layout[2] = mesh_pipeline.mesh_layout

C8_BlankWhenNothingDrawn ==
    (result = "Ok" /\ OpIdx("draw") = {}) => tex[out_slot] = {}

\* C9: run never returns when the view input slot has no value (it panics),
\* and with the input present it returns Ok whether the phase is absent,
\* empty or non-empty; it never returns an Err.
C9_FatalOnlyOnMissingInput ==
    /\ (RunEnded /\ res_present /\ input_view = NoEntity) => result = "panic"
    /\ RunReachedLookup => result = "Ok"
    /\ result # "Err"

C9_Witness ==
    RunEnded /\ res_present /\ input_view = NoEntity /\ result = "panic"

\* C10: when a phase exists (even an empty one) run opens exactly one pass on
\* the multisample target with the resolved target as resolve destination,
\* clear-to-black load, store, no depth/stencil; the commands are ordered
\* clear, draws, resolve; and the output slot is assigned exactly once, before
\* the pass is opened.
C10_OnePassClearDrawResolve ==
    (RunReachedLookup /\ phase.some) =>
        /\ Cardinality(OpIdx("begin_pass")) = 1
        /\ Cardinality(OpIdx("end_pass")) = 1
        /\ Cardinality(OpIdx("clear")) = 1
        /\ Cardinality(OpIdx("resolve")) = 1
        /\ Cardinality(OpIdx("set_output")) = 1
        /\ OpIdx("load") = {}
        /\ \A b \in OpIdx("begin_pass") :
              /\ Len(trace[b].desc.color_attachments) = 1
              /\ trace[b].desc.color_attachments[1] =
                    [view |-> "mask_multisample", resolve_target |-> "mask_output",
                     load |-> "Clear_BLACK", store |-> TRUE]
              /\ trace[b].desc.depth_stencil_attachment = "None"
              /\ \A s \in OpIdx("set_output") : s < b
              /\ \A c \in OpIdx("clear") : b < c
        /\ \A c \in OpIdx("clear"), d \in OpIdx("draw") : c < d
        /\ \A c \in OpIdx("clear"), r \in OpIdx("resolve") : c < r
        /\ \A d \in OpIdx("draw"), r \in OpIdx("resolve") : d < r
        /\ \A r \in OpIdx("resolve") :
              /\ trace[r].src = "mask_multisample"
              /\ trace[r].dst = "mask_output"
              /\ \A e \in OpIdx("end_pass") : r < e
        /\ Cardinality(OpIdx("draw")) = Len(phase.items)

C10_Witness ==
    /\ RunReachedLookup /\ phase.some /\ phase.items = << >>
    /\ OpIdx("begin_pass") # {}

====
